---- MODULE Spec2Model ----
(***************************************************************************)
(* cws-mcp: an MCP server exposing Chrome Web Store management tools.      *)
(*                                                                         *)
(* The repository holds two server entry files: src/src/index.ts (server   *)
(* version "1.1.0", eight tools) and src/unnamed/part_000 (server version  *)
(* "1.0.0", five tools).  The variable serverVersion says which of the two *)
(* files is the running process; everything the two files share is         *)
(* modelled once, and the places where they differ branch on it.           *)
(*                                                                         *)
(* JavaScript values: strings are TLA+ strings, `undefined` is the         *)
(* sentinel Undefined, a template literal is the sequence of its pieces,   *)
(* an object is a function from its keys.  A completion is either          *)
(* Return(v) or Throw(message), as in the language's own semantics.        *)
(*                                                                         *)
(* Each tool invocation is a process p: code between two awaits is one     *)
(* atomic action, the awaits on the network and on the browser are the     *)
(* interleaving points.                                                    *)
(***************************************************************************)
EXTENDS Integers, Sequences, FiniteSets, TLC

VARIABLES
    CLIENT_ID,        \* process.env.CWS_CLIENT_ID || ""
    CLIENT_SECRET,    \* process.env.CWS_CLIENT_SECRET || ""
    REFRESH_TOKEN,    \* process.env.CWS_REFRESH_TOKEN || ""
    PUBLISHER_ID,     \* process.env.CWS_PUBLISHER_ID || "me"
    DEFAULT_ITEM_ID,  \* process.env.CWS_ITEM_ID || ""
    env,              \* process.env: CWS_PUBLISHER_ID and CWS_ITEM_ID as the launcher set them
    serverVersion,    \* which entry file runs: "1.1.0" or "1.0.0"
    cachedToken,      \* the module-level token cache (null or a pair)
    now,              \* Date.now(), in milliseconds
    pc,               \* pc[p]: where invocation p stands
    call,             \* call[p]: the tool and the arguments of invocation p
    handlerRuns,      \* handlerRuns[p]: times the tool's handler was entered
    tokenRequests,    \* tokenRequests[p]: token-exchange POSTs sent by p
    tokenResponses,   \* tokenResponses[p]: token-endpoint answers (grants, refusals) received by p
    apiRequests,      \* apiRequests[p]: store API requests sent by p
    apiResponses,     \* apiResponses[p]: store API answers received by p
    thrown,           \* thrown[p]: messages of the errors raised inside p
    result,           \* result[p]: completion of the handler (the envelope)
    ui                \* ui[p]: browser-automation state of invocation p

cfgVars == <<CLIENT_ID, CLIENT_SECRET, REFRESH_TOKEN, PUBLISHER_ID,
             DEFAULT_ITEM_ID, env, serverVersion>>
procVars == <<pc, call, handlerRuns, tokenRequests, tokenResponses, apiRequests,
              apiResponses, thrown, result, ui>>
vars == <<cfgVars, cachedToken, now, procVars>>

---------------------------------------------------------------------------
(* Bounds of the model.                                                    *)

\* The clock takes the values 0, TickMs, ..., MaxTicks * TickMs.
MaxTicks == 2
\* The token endpoint answers expires_in = k * 60 seconds, k in 0..MaxExpirySteps.
MaxExpirySteps == 2
\* Named fields one update-metadata call supplies under SpecMetadata.
MaxNamedFields == 2

---------------------------------------------------------------------------
(* Program constants.                                                      *)

SAFETY_MARGIN_MS == 60000
MS_PER_SECOND == 1000
API_BASE == "https://chromewebstore.googleapis.com"
V1_BASE == "https://www.googleapis.com/chromewebstore/v1.1"
TOKEN_URL == "https://oauth2.googleapis.com/token"
DASHBOARD_PROFILE_DIR == "~/.cws-mcp-profile"
UPLOAD_BASE ==
    IF serverVersion = "1.1.0"
    THEN "https://chromewebstore.googleapis.com/upload/v2"
    ELSE "https://www.googleapis.com/upload/chrome/v2"

Versions == {"1.1.0", "1.0.0"}

\* The tools each entry file registers with server.tool(...).
RegisteredTools ==
    IF serverVersion = "1.1.0"
    THEN {"upload", "publish", "status", "cancel", "deploy-percentage",
          "get", "update-metadata", "update-metadata-ui"}
    ELSE {"upload", "publish", "status", "cancel", "deploy-percentage"}

---------------------------------------------------------------------------
(* JavaScript values.                                                      *)

Undefined == "<undefined>"
Null == [access_token |-> "<null>", expires_at |-> -1]

\* A string is truthy unless it is empty; undefined is falsy.
Truthy(s) == s # Undefined /\ s # ""

\* a || b
OrElse(a, b) == IF Truthy(a) THEN a ELSE b

Return(v) == [type |-> "return", value |-> v]
Throw(m) == [type |-> "throw", message |-> m]
NoResult == [type |-> "none"]

\* Object spread {...a, ...b}: b's keys win.
Spread(a, b) == [k \in (DOMAIN a) \cup (DOMAIN b) |->
                    IF k \in DOMAIN b THEN b[k] ELSE a[k]]

EmptyObject == [k \in {} |-> ""]

\* JSON.stringify(obj): the serialised text of an object.
JsonStringify(obj) == <<"json", obj>>

\* String.prototype.trim over the strings the model draws text fields from.
Trim(s) ==
    CASE s = " " -> ""
      [] s = " B " -> "B"
      [] OTHER -> s

---------------------------------------------------------------------------
(* Messages and envelopes.                                                 *)

MissingCredentialsMessage ==
    <<"Missing OAuth2 credentials. Set CWS_CLIENT_ID, CWS_CLIENT_SECRET, and CWS_REFRESH_TOKEN.">>
NoItemIdMessage ==
    <<"No item ID provided. Pass itemId parameter or set CWS_ITEM_ID env var.">>
NoMetadataMessage == <<"No metadata fields provided.">>
NoUiFieldsMessage == <<"No fields provided for UI update.">>
SaveButtonMessage == <<"Save button not found on dashboard page.">>
NotSignedInMessage ==
    <<"Not signed in to Chrome Web Store dashboard. Open once with headless=false and sign in. Profile dir: ",
      DASHBOARD_PROFILE_DIR>>
TokenRefreshFailedMessage(status, text) ==
    <<"Token refresh failed (", ToString(status), "): ", text>>
FieldNotFoundMessage(labels) == <<"Unable to locate field by labels: ", labels>>

\* Errors raised by the runtime and the libraries (fetch, fs, playwright).
FetchFailedMessage == <<"fetch failed">>
InvalidJsonMessage == <<"Unexpected token < in JSON at position 0">>
FileNotFoundMessage(path) == <<"ENOENT: no such file or directory, open '", path, "'">>
PlaywrightMessage(what) == <<"playwright: ", what>>

\* catch (e) { return { content: [{type: "text", text: `Error: ${e.message}`}], isError: true } }
ErrorEnvelope(message) ==
    [content |-> <<[type |-> "text", text |-> <<"Error: ">> \o message]>>,
     isError |-> TRUE]

\* return { content: [{type: "text", text: result.body}], isError: !result.ok }
ApiEnvelope(res) ==
    [content |-> <<[type |-> "text", text |-> <<res.body>>]>>,
     isError |-> ~res.ok]

\* Variant of a handler without its catch block.
HandlerNoCatch(c) == c

\* The try { ... } catch (e) { ... } that wraps the body of every handler.
HandlerCatch(c) ==
    IF c.type = "throw" THEN Return(ErrorEnvelope(c.message)) ELSE c

---------------------------------------------------------------------------
(* Arguments of a tool call.                                               *)

TextFields == {"title", "summary", "description", "category", "defaultLocale",
               "homepageUrl", "supportUrl"}

\* Optional non-string arguments are an empty or a one-element sequence.
NoArgs ==
    [itemId |-> Undefined, publisherId |-> Undefined, zipPath |-> Undefined,
     percentage |-> 0, projection |-> Undefined,
     title |-> Undefined, summary |-> Undefined, description |-> Undefined,
     category |-> Undefined, defaultLocale |-> Undefined,
     homepageUrl |-> Undefined, supportUrl |-> Undefined,
     metadata |-> <<>>, accountIndex |-> <<>>]

With(a, field, v) == [a EXCEPT ![field] = v]

\* The argument schema each server.tool(...) declares (zod), checked by the
\* protocol layer before the handler is entered.  Unknown keys are dropped.
\* Variant of the percentage schema without its upper bound.
PercentageSchemaNoMax(x) == x >= 0

\* z.number().min(0).max(100)
PercentageSchema(x) == x >= 0 /\ x <= 100
ProjectionSchema(x) == x \in {Undefined, "DRAFT", "PUBLISHED"}
AccountIndexSchema(x) == x = <<>> \/ (x[1] >= 0 /\ x[1] <= 9)

SchemaOk(tool, a) ==
    CASE tool = "upload" -> a.zipPath # Undefined
      [] tool = "deploy-percentage" -> PercentageSchema(a.percentage)
      [] tool = "get" -> ProjectionSchema(a.projection)
      [] tool = "update-metadata-ui" -> AccountIndexSchema(a.accountIndex)
      [] OTHER -> TRUE

\* What the protocol layer answers for arguments the schema refuses.
SchemaRejection(tool) ==
    Return([content |-> <<[type |-> "text",
                           text |-> <<"Invalid arguments for tool ", tool>>]>>,
            isError |-> TRUE])

---------------------------------------------------------------------------
(* Helpers of the server.                                                  *)

\* Variant of resolveItemId without the emptiness check.
resolveItemIdUnchecked(itemId) == Return(OrElse(itemId, DEFAULT_ITEM_ID))

\* function resolveItemId(itemId?: string): string
resolveItemId(itemId) ==
    LET id == OrElse(itemId, DEFAULT_ITEM_ID)
    IN  IF ~Truthy(id) THEN Throw(NoItemIdMessage) ELSE Return(id)

\* function resolvePublisherId(publisherId?: string): string
resolvePublisherId(publisherId) == OrElse(publisherId, PUBLISHER_ID)

\* The files present on disk, and readFileSync over them.
ExistingFiles == {"/ext.zip"}
readFileSync(path) ==
    IF path \in ExistingFiles
    THEN Return(<<"bytes of ", path>>)
    ELSE Throw(FileNotFoundMessage(path))

\* encodeURIComponent leaves A-Z untouched: both projections encode to themselves.
encodeURIComponent(s) ==
    CASE s = "DRAFT" -> "DRAFT"
      [] s = "PUBLISHED" -> "PUBLISHED"
      [] OTHER -> "%3F"

NoBody == <<>>
Options(url, method, headers, body) ==
    [url |-> url, method |-> method, headers |-> headers, body |-> body]
NoOptions == Options(<<>>, "", EmptyObject, NoBody)
JsonHeaders == ("Content-Type" :> <<"application/json">>)
ZipHeaders == ("Content-Type" :> <<"application/zip">>)

---------------------------------------------------------------------------
(* The request each REST handler builds before it calls apiCall: a         *)
(* completion, Throw(message) when the handler's own code throws first.    *)

\* upload, src/src/index.ts: the item id is optional and selects the endpoint.
uploadRequest_v110(a) ==
    LET pub == resolvePublisherId(a.publisherId)
        zipData == readFileSync(a.zipPath)
        id == OrElse(a.itemId, DEFAULT_ITEM_ID)
        url == IF Truthy(id)
               THEN <<UPLOAD_BASE, "/publishers/", pub, "/items/", id, ":upload">>
               ELSE <<UPLOAD_BASE, "/publishers/", pub, "/items:upload">>
    IN  IF zipData.type = "throw" THEN zipData
        ELSE Return(Options(url, "POST", ZipHeaders, zipData.value))

\* upload, src/unnamed/part_000: the item id is resolved like everywhere else.
uploadRequest_v100(a) ==
    LET id == resolveItemId(a.itemId)
        pub == resolvePublisherId(a.publisherId)
        zipData == readFileSync(a.zipPath)
    IN  IF id.type = "throw" THEN id
        ELSE IF zipData.type = "throw" THEN zipData
        ELSE Return(Options(
                <<UPLOAD_BASE, "/publishers/", pub, "/items/", id.value, ":upload">>,
                "POST", ZipHeaders, zipData.value))

uploadRequest(a) ==
    IF serverVersion = "1.1.0" THEN uploadRequest_v110(a) ELSE uploadRequest_v100(a)

\* publish, status, cancel: `${API_BASE}/v2/publishers/${pub}/items/${id}:<verb>`
ItemVerbRequest(a, verb, method, headers, body) ==
    LET id == resolveItemId(a.itemId)
        pub == resolvePublisherId(a.publisherId)
    IN  IF id.type = "throw" THEN id
        ELSE Return(Options(
                <<API_BASE, "/v2/publishers/", pub, "/items/", id.value, verb>>,
                method, headers, body))

publishRequest(a) == ItemVerbRequest(a, ":publish", "POST", EmptyObject, NoBody)

\* status: GET in src/src/index.ts, POST in src/unnamed/part_000.
statusMethod == IF serverVersion = "1.1.0" THEN "GET" ELSE "POST"
statusRequest(a) ==
    ItemVerbRequest(a, ":fetchStatus", statusMethod, EmptyObject, NoBody)

cancelRequest(a) ==
    ItemVerbRequest(a, ":cancelSubmission", "POST", EmptyObject, NoBody)

deployPercentageRequest(a) ==
    ItemVerbRequest(a, ":setPublishedDeployPercentage", "POST", JsonHeaders,
                    JsonStringify([deployPercentage |-> a.percentage]))

getRequest(a) ==
    LET id == resolveItemId(a.itemId)
        p == OrElse(a.projection, "DRAFT")
    IN  IF id.type = "throw" THEN id
        ELSE Return(Options(
                <<V1_BASE, "/items/", id.value, "?projection=", encodeURIComponent(p)>>,
                "GET", EmptyObject, NoBody))

\* metadata || {}
MetadataOrEmpty(m) == IF m = <<>> THEN EmptyObject ELSE m[1]

\* Variants of the payload: named fields copied only when truthy, and the
\* raw metadata object winning over the named fields.
updateMetadataPayloadTruthy(a) ==
    Spread(MetadataOrEmpty(a.metadata),
           [k \in {f \in TextFields : Truthy(a[f])} |-> a[k]])
updateMetadataPayloadMetadataWins(a) ==
    Spread([k \in {f \in TextFields : a[f] # Undefined} |-> a[k]],
           MetadataOrEmpty(a.metadata))

\* const payload = {...(metadata || {})}; if (title !== undefined) payload.title = title; ...
updateMetadataPayload(a) ==
    Spread(MetadataOrEmpty(a.metadata),
           [k \in {f \in TextFields : a[f] # Undefined} |-> a[k]])

updateMetadataRequest(a) ==
    LET id == resolveItemId(a.itemId)
        payload == updateMetadataPayload(a)
    IN  IF id.type = "throw" THEN id
        ELSE IF DOMAIN payload = {} THEN Throw(NoMetadataMessage)
        ELSE Return(Options(<<V1_BASE, "/items/", id.value>>, "PUT", JsonHeaders,
                            JsonStringify(payload)))

RestTools == {"upload", "publish", "status", "cancel", "deploy-percentage",
              "get", "update-metadata"}

RequestOf(tool, a) ==
    CASE tool = "upload" -> uploadRequest(a)
      [] tool = "publish" -> publishRequest(a)
      [] tool = "status" -> statusRequest(a)
      [] tool = "cancel" -> cancelRequest(a)
      [] tool = "deploy-percentage" -> deployPercentageRequest(a)
      [] tool = "get" -> getRequest(a)
      [] tool = "update-metadata" -> updateMetadataRequest(a)

---------------------------------------------------------------------------
(* Token manager and request dispatcher.                                   *)

\* Variant of the credentials test that fires only when all three are empty.
CredentialsMissingAll == CLIENT_ID = "" /\ CLIENT_SECRET = "" /\ REFRESH_TOKEN = ""

\* if (!CLIENT_ID || !CLIENT_SECRET || !REFRESH_TOKEN)
CredentialsMissing == CLIENT_ID = "" \/ CLIENT_SECRET = "" \/ REFRESH_TOKEN = ""

\* Variants of the freshness test: the margin counted twice, and left out.
TokenIsFreshDoubleMargin ==
    cachedToken # Null /\ now < cachedToken.expires_at - 2 * SAFETY_MARGIN_MS
TokenIsFreshNoMargin ==
    cachedToken # Null /\ now < cachedToken.expires_at

\* if (cachedToken && Date.now() < cachedToken.expires_at - 60_000)
TokenIsFresh ==
    cachedToken # Null /\ now < cachedToken.expires_at - SAFETY_MARGIN_MS

\* getAccessToken up to its first await: it throws, returns the cached
\* token, or goes on to the token exchange.
getAccessTokenEntry ==
    IF CredentialsMissing THEN Throw(MissingCredentialsMessage)
    ELSE IF TokenIsFresh THEN Return(cachedToken.access_token)
    ELSE [type |-> "await"]

\* fetch(TOKEN_URL, {method: "POST", headers: ..., body: body.toString()})
TokenRequest ==
    [url |-> TOKEN_URL, method |-> "POST",
     headers |-> ("Content-Type" :> <<"application/x-www-form-urlencoded">>),
     body |-> [client_id |-> CLIENT_ID, client_secret |-> CLIENT_SECRET,
               refresh_token |-> REFRESH_TOKEN, grant_type |-> "refresh_token"]]

\* cachedToken = {access_token: data.access_token, expires_at: Date.now() + data.expires_in * 1000}
NewCacheEntry(data) ==
    [access_token |-> data.access_token,
     expires_at |-> now + data.expires_in * MS_PER_SECOND]

\* fetch(url, {...options, headers}) with headers = {Authorization, ...options.headers}
ApiFetch(options, token) ==
    [url |-> options.url, method |-> options.method,
     headers |-> Spread(("Authorization" :> <<"Bearer ", token>>), options.headers),
     body |-> options.body]

\* Variant of apiCall's result that takes only 200 for success.
ApiResultOnly200(status, body) ==
    [ok |-> (status = 200), status |-> status, body |-> body]

\* return {ok: res.ok, status: res.status, body}
ApiResult(status, body) ==
    [ok |-> (status >= 200 /\ status <= 299), status |-> status, body |-> body]

---------------------------------------------------------------------------
(* What the network, the token endpoint and the store API may answer.      *)

TickMs == SAFETY_MARGIN_MS
Tokens == {"ya29.A", "ya29.B"}
ExpiresIn == {k * 60 : k \in 0..MaxExpirySteps}
TokenErrorStatuses == {400, 401}
TokenErrorBodies == {"{\"error\":\"invalid_grant\"}"}
\* <<status, body>> of the store API's answers: both sides of the 2xx class,
\* each body under a success and under a failure status.
ApiResponses == {<<200, "{\"id\":\"itemA\"}">>, <<299, "{\"error\":\"forbidden\"}">>,
                 <<300, "{\"id\":\"itemA\"}">>, <<403, "{\"error\":\"forbidden\"}">>}

---------------------------------------------------------------------------
(* Invocations.                                                            *)

NoCall == [tool |-> "", args |-> NoArgs, options |-> NoOptions]
NoUi == [context |-> "none", launches |-> 0, closes |-> 0, url |-> <<>>,
         field |-> 1, filled |-> <<>>, category |-> "untried", categoryClicks |-> 0,
         saveClicks |-> 0, pending |-> NoResult]

Procs == DOMAIN pc

\* The handler's body completed with c, having raised the errors `raised`:
\* its try/catch turns c into the handler's own completion.
Finish(p, c, raised) ==
    /\ pc' = [pc EXCEPT ![p] = "done"]
    /\ result' = [result EXCEPT ![p] = HandlerCatch(c)]
    /\ thrown' = [thrown EXCEPT ![p] = @ \o raised]

Fail(p, message) == Finish(p, Throw(message), <<message>>)

\* What an action that receives nothing from the network leaves alone.
received == <<tokenResponses, apiResponses>>

\* apiCall(url, options) up to its first pending await.
ApiCallStart(p, options) ==
    LET t == getAccessTokenEntry
    IN  CASE t.type = "throw" ->
               /\ Fail(p, t.message)
               /\ UNCHANGED <<tokenRequests, apiRequests>>
          [] t.type = "return" ->
               /\ pc' = [pc EXCEPT ![p] = "awaitApi"]
               /\ apiRequests' = [apiRequests EXCEPT
                                    ![p] = Append(@, ApiFetch(options, t.value))]
               /\ UNCHANGED <<tokenRequests, thrown, result>>
          [] t.type = "await" ->
               /\ pc' = [pc EXCEPT ![p] = "awaitToken"]
               /\ tokenRequests' = [tokenRequests EXCEPT ![p] = Append(@, TokenRequest)]
               /\ UNCHANGED <<apiRequests, thrown, result>>

\* A REST handler from its entry to its first pending await.
RestStart(p, tool, a) ==
    LET prep == RequestOf(tool, a)
    IN  /\ handlerRuns' = [handlerRuns EXCEPT ![p] = @ + 1]
        /\ ui' = ui
        /\ IF prep.type = "throw"
           THEN /\ call' = [call EXCEPT ![p] = [tool |-> tool, args |-> a,
                                                 options |-> NoOptions]]
                /\ Fail(p, prep.message)
                /\ UNCHANGED <<tokenRequests, apiRequests>>
           ELSE /\ call' = [call EXCEPT ![p] = [tool |-> tool, args |-> a,
                                                 options |-> prep.value]]
                /\ ApiCallStart(p, prep.value)

\* update-metadata-ui: the fields the dashboard automation may fill.
UiFields == {"title", "summary", "description", "category", "homepageUrl",
             "supportUrl"}
UiTextOrder == <<"title", "summary", "description", "homepageUrl", "supportUrl">>

\* typeof v === "string" && v.trim().length > 0
NonBlank(v) == v # Undefined /\ Trim(v) # ""

hasAnyField(a) == \E f \in UiFields : NonBlank(a[f])

\* `https://chromewebstore.google.com/u/${idx}/dashboard/${id}/edit`, idx = accountIndex ?? 0
dashboardUrl(a, id) ==
    LET idx == IF a.accountIndex = <<>> THEN 0 ELSE a.accountIndex[1]
    IN  <<"https://chromewebstore.google.com/u/", ToString(idx), "/dashboard/",
          id, "/edit">>

\* update-metadata-ui from its entry to the await on launchPersistentContext.
UiStart(p, a) ==
    LET id == resolveItemId(a.itemId)
    IN  /\ handlerRuns' = [handlerRuns EXCEPT ![p] = @ + 1]
        /\ call' = [call EXCEPT ![p] = [tool |-> "update-metadata-ui", args |-> a,
                                        options |-> NoOptions]]
        /\ UNCHANGED <<tokenRequests, apiRequests>>
        /\ IF id.type = "throw"
           THEN Fail(p, id.message) /\ ui' = ui
           ELSE IF ~hasAnyField(a)
           THEN Fail(p, NoUiFieldsMessage) /\ ui' = ui
           ELSE /\ pc' = [pc EXCEPT ![p] = "uiLaunch"]
                /\ ui' = [ui EXCEPT ![p].launches = @ + 1]
                /\ UNCHANGED <<thrown, result>>

\* A client calls tool `tool` with arguments `a`.
Invoke(p, tool, a) ==
    /\ pc[p] = "idle"
    /\ tool \in RegisteredTools
    /\ UNCHANGED <<cfgVars, cachedToken, now, received>>
    /\ IF ~SchemaOk(tool, a)
       THEN /\ pc' = [pc EXCEPT ![p] = "done"]
            /\ result' = [result EXCEPT ![p] = SchemaRejection(tool)]
            /\ call' = [call EXCEPT ![p] = [tool |-> tool, args |-> a,
                                            options |-> NoOptions]]
            /\ UNCHANGED <<handlerRuns, tokenRequests, apiRequests, thrown, ui>>
       ELSE IF tool = "update-metadata-ui"
       THEN UiStart(p, a)
       ELSE RestStart(p, tool, a)

\* The token endpoint cannot be reached: fetch rejects.
TokenFetchFails(p) ==
    /\ pc[p] = "awaitToken"
    /\ Fail(p, FetchFailedMessage)
    /\ UNCHANGED <<cfgVars, cachedToken, now, call, handlerRuns, tokenRequests,
                   apiRequests, received, ui>>

\* Variant of the refusal path that sends the exchange once more.
TokenRefusedRetry(p) ==
    /\ pc[p] = "awaitToken"
    /\ \E status \in TokenErrorStatuses, text \in TokenErrorBodies :
          tokenResponses' = [tokenResponses EXCEPT
                  ![p] = Append(@, [status |-> status, body |-> text])]
    /\ tokenRequests' = [tokenRequests EXCEPT ![p] = Append(@, TokenRequest)]
    /\ UNCHANGED <<cfgVars, cachedToken, now, pc, call, handlerRuns, apiRequests,
                   apiResponses, thrown, result, ui>>

\* The token endpoint answers a non-2xx status: if (!res.ok) throw new Error(...).
TokenRefused(p) ==
    /\ pc[p] = "awaitToken"
    /\ \E status \in TokenErrorStatuses, text \in TokenErrorBodies :
          /\ tokenResponses' = [tokenResponses EXCEPT
                  ![p] = Append(@, [status |-> status, body |-> text])]
          /\ Fail(p, TokenRefreshFailedMessage(status, text))
    /\ UNCHANGED <<cfgVars, cachedToken, now, call, handlerRuns, tokenRequests,
                   apiRequests, apiResponses, ui>>

\* The token endpoint answers 2xx with a body that is not JSON: res.json() rejects.
TokenBodyInvalid(p) ==
    /\ pc[p] = "awaitToken"
    /\ Fail(p, InvalidJsonMessage)
    /\ UNCHANGED <<cfgVars, cachedToken, now, call, handlerRuns, tokenRequests,
                   apiRequests, received, ui>>

\* Variant of the grant path that keeps an entry another call has cached in
\* the meantime and sends that entry's token.
TokenGrantedKeepFirst(p) ==
    /\ pc[p] = "awaitToken"
    /\ \E tok \in Tokens, e \in ExpiresIn :
          LET data == [access_token |-> tok, expires_in |-> e]
          IN  /\ tokenResponses' = [tokenResponses EXCEPT ![p] = Append(@, data)]
              /\ cachedToken' = IF TokenIsFresh THEN cachedToken ELSE NewCacheEntry(data)
              /\ apiRequests' = [apiRequests EXCEPT
                      ![p] = Append(@, ApiFetch(call[p].options, cachedToken'.access_token))]
    /\ pc' = [pc EXCEPT ![p] = "awaitApi"]
    /\ UNCHANGED <<cfgVars, now, call, handlerRuns, tokenRequests, apiResponses,
                   thrown, result, ui>>

\* The token endpoint grants a token: the cache entry is replaced, the token
\* is returned to apiCall, which sends the store API request with it.
TokenGranted(p) ==
    /\ pc[p] = "awaitToken"
    /\ \E tok \in Tokens, e \in ExpiresIn :
          LET data == [access_token |-> tok, expires_in |-> e]
          IN  /\ tokenResponses' = [tokenResponses EXCEPT ![p] = Append(@, data)]
              /\ cachedToken' = NewCacheEntry(data)
              /\ apiRequests' = [apiRequests EXCEPT
                      ![p] = Append(@, ApiFetch(call[p].options, cachedToken'.access_token))]
    /\ pc' = [pc EXCEPT ![p] = "awaitApi"]
    /\ UNCHANGED <<cfgVars, now, call, handlerRuns, tokenRequests, apiResponses,
                   thrown, result, ui>>

\* The store API cannot be reached: fetch (or res.text()) rejects.
ApiFetchFails(p) ==
    /\ pc[p] = "awaitApi"
    /\ Fail(p, FetchFailedMessage)
    /\ UNCHANGED <<cfgVars, cachedToken, now, call, handlerRuns, tokenRequests,
                   apiRequests, received, ui>>

\* The store API answers: the handler wraps status and body into its envelope.
ApiAnswers(p) ==
    /\ pc[p] = "awaitApi"
    /\ \E res \in ApiResponses :
          /\ apiResponses' = [apiResponses EXCEPT
                  ![p] = Append(@, [status |-> res[1], body |-> res[2]])]
          /\ Finish(p, Return(ApiEnvelope(ApiResult(res[1], res[2]))), <<>>)
    /\ UNCHANGED <<cfgVars, cachedToken, now, call, handlerRuns, tokenRequests,
                   tokenResponses, apiRequests, ui>>

\* The protocol layer has sent the response; the slot is free for the next call.
Respond(p) ==
    /\ pc[p] = "done"
    /\ pc' = [pc EXCEPT ![p] = "idle"]
    /\ call' = [call EXCEPT ![p] = NoCall]
    /\ handlerRuns' = [handlerRuns EXCEPT ![p] = 0]
    /\ tokenRequests' = [tokenRequests EXCEPT ![p] = <<>>]
    /\ tokenResponses' = [tokenResponses EXCEPT ![p] = <<>>]
    /\ apiRequests' = [apiRequests EXCEPT ![p] = <<>>]
    /\ apiResponses' = [apiResponses EXCEPT ![p] = <<>>]
    /\ thrown' = [thrown EXCEPT ![p] = <<>>]
    /\ result' = [result EXCEPT ![p] = NoResult]
    /\ ui' = [ui EXCEPT ![p] = NoUi]
    /\ UNCHANGED <<cfgVars, cachedToken, now>>

\* Time passes.
Tick ==
    /\ now < MaxTicks * TickMs
    /\ now' = now + TickMs
    /\ UNCHANGED <<cfgVars, cachedToken, procVars>>

---------------------------------------------------------------------------
(* update-metadata-ui: the dashboard automation.                           *)

\* The label synonyms fillTextFieldByLabel is given for each text field
\* (labels.join(", ")); the Korean labels are written in Latin letters.
Labels(f) ==
    CASE f = "title" -> "Title, (ko) jemok, Name, (ko) ireum"
      [] f = "summary" -> "Summary, Short description, (ko) yoyak, (ko) jjalbeun seolmyeong"
      [] f = "description" -> "Description, (ko) seolmyeong"
      [] f = "homepageUrl" -> "Homepage, (ko) hompeiji"
      [] f = "supportUrl" -> "Support, (ko) jiwon, Help, (ko) doummal"

\* The text fields still to fill: if (title?.trim()) ..., in the code's order.
PendingFields(p) ==
    {i \in ui[p].field..Len(UiTextOrder) :
        Truthy(call[p].args[UiTextOrder[i]])
        /\ Truthy(Trim(call[p].args[UiTextOrder[i]]))}

NextField(p) == CHOOSE i \in PendingFields(p) : \A j \in PendingFields(p) : i <= j

\* JSON.stringify({ok: true, mode: "dashboard-ui", profileDir, url: page.url()}, null, 2)
UiSuccessEnvelope(url) ==
    [content |-> <<[type |-> "text",
                    text |-> JsonStringify([ok |-> TRUE, mode |-> "dashboard-ui",
                                            profileDir |-> DASHBOARD_PROFILE_DIR,
                                            url |-> url])]>>,
     isError |-> FALSE]

\* An error raised inside try { ... } finally { await context.close() }:
\* control goes to the finally block with the error pending.
UiRaise(p, message) ==
    /\ ui' = [ui EXCEPT ![p].pending = Throw(message)]
    /\ thrown' = [thrown EXCEPT ![p] = Append(@, message)]
    /\ pc' = [pc EXCEPT ![p] = "uiClose"]

uiFrame == <<cfgVars, cachedToken, now, call, handlerRuns, tokenRequests, apiRequests,
             received>>

\* chromium.launchPersistentContext rejects (no browser, profile locked).
UiLaunchFails(p) ==
    /\ pc[p] = "uiLaunch"
    /\ Fail(p, PlaywrightMessage("launchPersistentContext failed"))
    /\ UNCHANGED <<uiFrame, ui>>

\* chromium.launchPersistentContext resolves with the context.
UiLaunched(p) ==
    /\ pc[p] = "uiLaunch"
    /\ ui' = [ui EXCEPT ![p].context = "open"]
    /\ pc' = [pc EXCEPT ![p] = "uiGoto"]
    /\ UNCHANGED <<uiFrame, thrown, result>>

\* page.goto(dashboardUrl), the settle delay, and the login check.
UiGoto(p) ==
    /\ pc[p] = "uiGoto"
    /\ \E outcome \in {"dashboard", "login", "timeout"} :
          CASE outcome = "timeout" ->
                 UiRaise(p, PlaywrightMessage("page.goto: Timeout 90000ms exceeded"))
            [] outcome = "login" ->
                 \* page.url().includes("accounts.google.com")
                 /\ ui' = [ui EXCEPT ![p].pending = Throw(NotSignedInMessage),
                                     ![p].url = <<"https://accounts.google.com/signin">>]
                 /\ thrown' = [thrown EXCEPT ![p] = Append(@, NotSignedInMessage)]
                 /\ pc' = [pc EXCEPT ![p] = "uiClose"]
            [] outcome = "dashboard" ->
                 /\ ui' = [ui EXCEPT ![p].url =
                             dashboardUrl(call[p].args, resolveItemId(call[p].args.itemId).value)]
                 /\ pc' = [pc EXCEPT ![p] = "uiFill"]
                 /\ UNCHANGED thrown
    /\ UNCHANGED <<uiFrame, result>>

\* Variant of the fill step that passes over a field it cannot locate.
UiFillSkipMissing(p) ==
    /\ pc[p] = "uiFill"
    /\ PendingFields(p) # {}
    /\ LET i == NextField(p)
           f == UiTextOrder[i]
       IN  \E outcome \in {"filled", "notFound", "fillFails"} :
              CASE outcome = "notFound" ->
                     /\ ui' = [ui EXCEPT ![p].field = i + 1]
                     /\ UNCHANGED <<pc, thrown>>
                [] outcome = "fillFails" ->
                     UiRaise(p, PlaywrightMessage("locator.fill failed"))
                [] outcome = "filled" ->
                     /\ ui' = [ui EXCEPT
                                 ![p].filled = Append(@, <<f, Trim(call[p].args[f])>>),
                                 ![p].field = i + 1]
                     /\ UNCHANGED <<pc, thrown>>
    /\ UNCHANGED <<uiFrame, result>>

\* fillTextFieldByLabel for the next supplied text field.
UiFill(p) ==
    /\ pc[p] = "uiFill"
    /\ PendingFields(p) # {}
    /\ LET i == NextField(p)
           f == UiTextOrder[i]
       IN  \E outcome \in {"filled", "notFound", "fillFails"} :
              CASE outcome = "notFound" ->
                     \* (await locator.count()) === 0
                     UiRaise(p, FieldNotFoundMessage(Labels(f)))
                [] outcome = "fillFails" ->
                     UiRaise(p, PlaywrightMessage("locator.fill failed"))
                [] outcome = "filled" ->
                     /\ ui' = [ui EXCEPT
                                 ![p].filled = Append(@, <<f, Trim(call[p].args[f])>>),
                                 ![p].field = i + 1]
                     /\ UNCHANGED <<pc, thrown>>
    /\ UNCHANGED <<uiFrame, result>>

\* The category combobox, best effort: if (category?.trim()) { ... }.
UiCategory(p) ==
    /\ pc[p] = "uiFill"
    /\ PendingFields(p) = {}
    /\ IF Truthy(call[p].args.category) /\ Truthy(Trim(call[p].args.category))
       THEN \E outcome \in {"noCombobox", "noOption", "selected", "clickFails"} :
              CASE outcome = "clickFails" ->
                     UiRaise(p, PlaywrightMessage("locator.click failed"))
                [] outcome = "selected" ->
                     /\ ui' = [ui EXCEPT ![p].categoryClicks = @ + 1,
                                         ![p].category = outcome]
                     /\ pc' = [pc EXCEPT ![p] = "uiSave"]
                     /\ UNCHANGED thrown
                [] OTHER ->
                     \* (await categoryCombo.count()) > 0, (await option.count()) > 0
                     /\ ui' = [ui EXCEPT ![p].category = outcome]
                     /\ pc' = [pc EXCEPT ![p] = "uiSave"]
                     /\ UNCHANGED thrown
       ELSE /\ pc' = [pc EXCEPT ![p] = "uiSave"]
            /\ UNCHANGED <<ui, thrown>>
    /\ UNCHANGED <<uiFrame, result>>

\* clickSaveButton up to the click.
UiSave(p) ==
    /\ pc[p] = "uiSave"
    /\ \E outcome \in {"noButton", "clickFails", "clicked"} :
          CASE outcome = "noButton" -> UiRaise(p, SaveButtonMessage)
            [] outcome = "clickFails" ->
                 UiRaise(p, PlaywrightMessage("locator.click failed"))
            [] outcome = "clicked" ->
                 /\ ui' = [ui EXCEPT ![p].saveClicks = @ + 1]
                 /\ pc' = [pc EXCEPT ![p] = "uiSettle"]
                 /\ UNCHANGED thrown
    /\ UNCHANGED <<uiFrame, result>>

\* Variant of the success path that returns without closing the context.
UiSettleNoClose(p) ==
    /\ pc[p] = "uiSettle"
    /\ Finish(p, Return(UiSuccessEnvelope(ui[p].url)), <<>>)
    /\ UNCHANGED <<uiFrame, ui>>

\* clickSaveButton's page.waitForTimeout(2000), then the handler's return statement.
UiSettle(p) ==
    /\ pc[p] = "uiSettle"
    /\ \E ok \in BOOLEAN :
          IF ok
          THEN /\ ui' = [ui EXCEPT ![p].pending = Return(UiSuccessEnvelope(ui[p].url))]
               /\ pc' = [pc EXCEPT ![p] = "uiClose"]
               /\ UNCHANGED thrown
          ELSE UiRaise(p, PlaywrightMessage("page.waitForTimeout: page closed"))
    /\ UNCHANGED <<uiFrame, result>>

\* finally { await context.close() }: the pending completion stands unless
\* close itself rejects, which then replaces it.
UiClose(p) ==
    /\ pc[p] = "uiClose"
    /\ ui' = [ui EXCEPT ![p].closes = @ + 1, ![p].context = "closed"]
    /\ \E ok \in BOOLEAN :
          IF ok
          THEN Finish(p, ui[p].pending, <<>>)
          ELSE Fail(p, PlaywrightMessage("context.close failed"))
    /\ UNCHANGED uiFrame

---------------------------------------------------------------------------
(* Initial states: the environment the process starts in.                  *)

\* process.env.X is unset, empty or set.
EnvOf(value) == {Undefined, "", value}

\* The identifier variables of the environment: each unset or set; and in
\* all three forms.
Environments ==
    [CWS_PUBLISHER_ID : {Undefined, "pubEnv"}, CWS_ITEM_ID : {Undefined, "itemEnv"}]
AllEnvironments ==
    [CWS_PUBLISHER_ID : EnvOf("pubEnv"), CWS_ITEM_ID : EnvOf("itemEnv")]

\* The module's top-level statements, run in the environment `environment`.
InitWith(procs, environment) ==
    /\ env = environment
    /\ \E e \in EnvOf("id.apps.googleusercontent.com") : CLIENT_ID = OrElse(e, "")
    /\ \E e \in EnvOf("GOCSPX-secret") : CLIENT_SECRET = OrElse(e, "")
    /\ \E e \in EnvOf("1//refresh") : REFRESH_TOKEN = OrElse(e, "")
    /\ PUBLISHER_ID = OrElse(environment.CWS_PUBLISHER_ID, "me")
    /\ DEFAULT_ITEM_ID = OrElse(environment.CWS_ITEM_ID, "")
    /\ serverVersion \in Versions
    /\ cachedToken = Null
    /\ now = 0
    /\ pc = [p \in procs |-> "idle"]
    /\ call = [p \in procs |-> NoCall]
    /\ handlerRuns = [p \in procs |-> 0]
    /\ tokenRequests = [p \in procs |-> <<>>]
    /\ tokenResponses = [p \in procs |-> <<>>]
    /\ apiRequests = [p \in procs |-> <<>>]
    /\ apiResponses = [p \in procs |-> <<>>]
    /\ thrown = [p \in procs |-> <<>>]
    /\ result = [p \in procs |-> NoResult]
    /\ ui = [p \in procs |-> NoUi]

---------------------------------------------------------------------------
(* The arguments clients call the tools with.                              *)

ItemIds == {Undefined, "", "itemA"}
PublisherIds == {Undefined, "", "pubA"}
ZipPaths == {Undefined, "/ext.zip", "/missing.zip"}
Percentages == {-1, 0, 50, 100, 101, 150}
Projections == {Undefined, "DRAFT", "PUBLISHED", "LIVE"}

IdArgs == {[NoArgs EXCEPT !.itemId = i, !.publisherId = q] :
              i \in ItemIds, q \in PublisherIds}
ItemArgs == {[NoArgs EXCEPT !.itemId = i] : i \in ItemIds}

\* Arguments of the calls made under Spec.
Args(tool) ==
    CASE tool = "upload" ->
           {[a EXCEPT !.zipPath = z] : a \in IdArgs, z \in ZipPaths}
      [] tool = "deploy-percentage" ->
           {[a EXCEPT !.percentage = x] : a \in ItemArgs, x \in Percentages}
      [] tool = "get" ->
           {[NoArgs EXCEPT !.itemId = i, !.projection = x] :
               i \in ItemIds, x \in Projections}
      [] tool = "update-metadata" ->
           {[NoArgs EXCEPT !.itemId = i, !.title = t, !.metadata = m] :
               i \in ItemIds, t \in {Undefined, "", "B"},
               m \in {<<>>, <<EmptyObject>>, <<[title |-> "A"]>>}}
      [] tool = "update-metadata-ui" ->
           {[NoArgs EXCEPT !.itemId = i, !.title = t, !.category = c] :
               i \in ItemIds, t \in {Undefined, " B "}, c \in {Undefined, "B"}}
      [] tool = "publish" -> IdArgs
      [] OTHER -> ItemArgs

AllTools == RestTools \cup {"update-metadata-ui"}

---------------------------------------------------------------------------
(* Specifications.                                                         *)

\* One invocation at a time: the client awaits each answer before its next call.
Init == \E e \in Environments : InitWith({1}, e)

Call(p) == \E tool \in AllTools : \E a \in Args(tool) : Invoke(p, tool, a)

Next ==
    \/ \E p \in Procs : Call(p)
    \/ \E p \in Procs : TokenFetchFails(p)
    \/ \E p \in Procs : TokenRefused(p)
    \/ \E p \in Procs : TokenBodyInvalid(p)
    \/ \E p \in Procs : TokenGranted(p)
    \/ \E p \in Procs : ApiFetchFails(p)
    \/ \E p \in Procs : ApiAnswers(p)
    \/ \E p \in Procs : UiLaunchFails(p)
    \/ \E p \in Procs : UiLaunched(p)
    \/ \E p \in Procs : UiGoto(p)
    \/ \E p \in Procs : UiFill(p)
    \/ \E p \in Procs : UiCategory(p)
    \/ \E p \in Procs : UiSave(p)
    \/ \E p \in Procs : UiSettle(p)
    \/ \E p \in Procs : UiClose(p)
    \/ \E p \in Procs : Respond(p)
    \/ Tick

Spec == Init /\ [][Next]_vars

\* The update-metadata tool alone, over the whole range of its arguments, on
\* the server that registers it; the clock stands still.
MetadataObjects ==
    {EmptyObject, [title |-> "A"], [extra |-> "A"], [title |-> "A", extra |-> "A"]}

NamedChoices ==
    {f \in [TextFields -> {Undefined, "", "B"}] :
        Cardinality({k \in TextFields : f[k] # Undefined}) <= MaxNamedFields}

MetadataArgs ==
    {[k \in DOMAIN NoArgs |->
        IF k \in TextFields THEN f[k]
        ELSE IF k = "itemId" THEN i
        ELSE IF k = "metadata" THEN m
        ELSE NoArgs[k]] :
        f \in NamedChoices, i \in {Undefined, "itemA"},
        m \in {<<>>} \cup {<<o>> : o \in MetadataObjects}}

InitMetadata ==
    /\ \E e \in Environments : InitWith({1}, e)
    /\ serverVersion = "1.1.0"
    /\ PUBLISHER_ID = "me"
    /\ DEFAULT_ITEM_ID = ""

CallMetadata(p) == \E a \in MetadataArgs : Invoke(p, "update-metadata", a)

NextMetadata ==
    \/ \E p \in Procs : CallMetadata(p)
    \/ \E p \in Procs : TokenFetchFails(p)
    \/ \E p \in Procs : TokenRefused(p)
    \/ \E p \in Procs : TokenBodyInvalid(p)
    \/ \E p \in Procs : TokenGranted(p)
    \/ \E p \in Procs : ApiFetchFails(p)
    \/ \E p \in Procs : ApiAnswers(p)
    \/ \E p \in Procs : Respond(p)

SpecMetadata == InitMetadata /\ [][NextMetadata]_vars

\* Two invocations in flight at once: the protocol layer starts a handler for
\* every request it reads, and the handlers interleave at their awaits.
ConcurrentCalls == {1, 2}

InitConcurrent ==
    /\ \E e \in Environments : InitWith(ConcurrentCalls, e)
    /\ ~CredentialsMissing
    /\ PUBLISHER_ID = "me"
    /\ DEFAULT_ITEM_ID = "itemEnv"

CallConcurrent(p) == Invoke(p, "publish", NoArgs)

NextConcurrent ==
    \/ \E p \in Procs : CallConcurrent(p)
    \/ \E p \in Procs : TokenFetchFails(p)
    \/ \E p \in Procs : TokenRefused(p)
    \/ \E p \in Procs : TokenBodyInvalid(p)
    \/ \E p \in Procs : TokenGranted(p)
    \/ \E p \in Procs : ApiFetchFails(p)
    \/ \E p \in Procs : ApiAnswers(p)
    \/ \E p \in Procs : Respond(p)
    \/ Tick

SpecConcurrent == InitConcurrent /\ [][NextConcurrent]_vars

\* The REST tools called with every form of itemId and publisherId, in every
\* form of the environment's defaults; credentials are set, the clock stands still.
IdentifierArgs(tool) ==
    CASE tool = "upload" -> {[a EXCEPT !.zipPath = "/ext.zip"] : a \in IdArgs}
      [] tool = "deploy-percentage" -> {[a EXCEPT !.percentage = 50] : a \in IdArgs}
      [] tool = "update-metadata" -> {[a EXCEPT !.title = "B"] : a \in IdArgs}
      [] OTHER -> IdArgs

InitIdentifiers ==
    /\ \E e \in AllEnvironments : InitWith({1}, e)
    /\ ~CredentialsMissing

CallIdentifiers(p) ==
    \E tool \in RestTools : \E a \in IdentifierArgs(tool) : Invoke(p, tool, a)

NextIdentifiers ==
    \/ \E p \in Procs : CallIdentifiers(p)
    \/ \E p \in Procs : TokenFetchFails(p)
    \/ \E p \in Procs : TokenRefused(p)
    \/ \E p \in Procs : TokenBodyInvalid(p)
    \/ \E p \in Procs : TokenGranted(p)
    \/ \E p \in Procs : ApiFetchFails(p)
    \/ \E p \in Procs : ApiAnswers(p)
    \/ \E p \in Procs : Respond(p)

SpecIdentifiers == InitIdentifiers /\ [][NextIdentifiers]_vars

\* The update-metadata-ui tool alone, over the range of its arguments, on the
\* server that registers it; the clock stands still.
UiTexts ==
    {f \in [{"title", "summary", "description", "homepageUrl", "supportUrl"}
                -> {Undefined, " ", " B "}] :
        Cardinality({k \in DOMAIN f : f[k] # Undefined}) <= MaxNamedFields}

UiArgs ==
    {[k \in DOMAIN NoArgs |->
        IF k \in DOMAIN f THEN f[k]
        ELSE IF k = "itemId" THEN i
        ELSE IF k = "category" THEN c
        ELSE IF k = "accountIndex" THEN x
        ELSE NoArgs[k]] :
        f \in UiTexts, i \in {Undefined, "itemA"}, c \in {Undefined, " ", "B"},
        x \in {<<>>, <<1>>}}

InitUi ==
    /\ \E e \in Environments : InitWith({1}, e)
    /\ serverVersion = "1.1.0"
    /\ ~CredentialsMissing
    /\ PUBLISHER_ID = "me"

CallUi(p) == \E a \in UiArgs : Invoke(p, "update-metadata-ui", a)

NextUi ==
    \/ \E p \in Procs : CallUi(p)
    \/ \E p \in Procs : UiLaunchFails(p)
    \/ \E p \in Procs : UiLaunched(p)
    \/ \E p \in Procs : UiGoto(p)
    \/ \E p \in Procs : UiFill(p)
    \/ \E p \in Procs : UiCategory(p)
    \/ \E p \in Procs : UiSave(p)
    \/ \E p \in Procs : UiSettle(p)
    \/ \E p \in Procs : UiClose(p)
    \/ \E p \in Procs : Respond(p)

SpecUi == InitUi /\ [][NextUi]_vars

---------------------------------------------------------------------------
(* Properties.                                                             *)

Last(seq) == seq[Len(seq)]
Bearer(req) == req.headers["Authorization"]

\* Invocation p enters token acquisition with credentials present in this step.
StartsAuthenticated(p) ==
    pc[p] = "idle" /\ pc'[p] \in {"awaitToken", "awaitApi"}

\* C1 (token reuse): whenever an authenticated call starts while the cache
\* holds a token whose expires_at is more than 60 s after the current time,
\* the call sends no token-exchange request, its API request carries the
\* cached access_token and the cache entry stays as it is; and a call whose
\* API request is out never starts a token exchange or touches the cache.
\* As this holds of every step, it holds of any number of consecutive calls.
C1_TokenReuse ==
    [][\A p \in Procs :
        /\ (StartsAuthenticated(p) /\ cachedToken # Null
                /\ cachedToken.expires_at > now + 60000)
             => /\ tokenRequests'[p] = <<>>
                /\ Len(apiRequests'[p]) = 1
                /\ Bearer(apiRequests'[p][1]) = <<"Bearer ", cachedToken.access_token>>
                /\ cachedToken' = cachedToken
        /\ (pc[p] = "awaitApi" /\ pc'[p] # "idle")
             => /\ tokenRequests'[p] = tokenRequests[p]
                /\ cachedToken' = cachedToken
      ]_vars

\* A call answered from the cache: no exchange of its own, its API request
\* carries the token an earlier call put into the cache, which is still fresh.
C1_Witness ==
    /\ pc[1] = "done"
    /\ tokenRequests[1] = <<>>
    /\ Len(apiRequests[1]) = 1
    /\ Len(apiResponses[1]) = 1
    /\ cachedToken # Null
    /\ Bearer(apiRequests[1][1]) = <<"Bearer ", cachedToken.access_token>>
    /\ cachedToken.expires_at > now + 60000

\* C2 (token refresh): an authenticated call that starts with the cache empty
\* or with the current time at or past expires_at - 60 s sends exactly one
\* token-exchange request and no API request yet; no invocation ever sends a
\* second exchange; and when the exchange is granted, in that step the cache
\* becomes {granted access_token, now + expires_in * 1000} and the one API
\* request is sent carrying the granted token.
C2_TokenRefresh ==
    [][\A p \in Procs :
        /\ (StartsAuthenticated(p)
                /\ (cachedToken = Null \/ now >= cachedToken.expires_at - 60000))
             => /\ pc'[p] = "awaitToken"
                /\ Len(tokenRequests'[p]) = 1
                /\ tokenRequests'[p][1].url = "https://oauth2.googleapis.com/token"
                /\ tokenRequests'[p][1].method = "POST"
                /\ apiRequests'[p] = <<>>
                /\ cachedToken' = cachedToken
        /\ Len(tokenRequests'[p]) <= 1
        /\ (Len(apiRequests'[p]) > Len(apiRequests[p]) /\ tokenRequests[p] # <<>>)
             => /\ pc[p] = "awaitToken"
                /\ Len(tokenResponses'[p]) = 1
                /\ Len(apiRequests'[p]) = 1
                /\ LET data == tokenResponses'[p][1]
                   IN  /\ Bearer(apiRequests'[p][1]) = <<"Bearer ", data.access_token>>
                       /\ cachedToken' = [access_token |-> data.access_token,
                                          expires_at |-> now + data.expires_in * 1000]
      ]_vars

\* A refresh of a cache entry that had run into its last 60 s: time has
\* passed, one exchange was made, and the API request carries the new token.
C2_Witness ==
    /\ pc[1] = "awaitApi"
    /\ now > 0
    /\ Len(tokenRequests[1]) = 1
    /\ Len(tokenResponses[1]) = 1
    /\ Bearer(apiRequests[1][1]) = <<"Bearer ", tokenResponses[1][1].access_token>>
    /\ cachedToken.access_token = tokenResponses[1][1].access_token
    /\ cachedToken.expires_at = now + tokenResponses[1][1].expires_in * 1000
    /\ tokenResponses[1][1].expires_in > 0

ItemIdTools == {"publish", "status", "cancel", "deploy-percentage", "get",
                "update-metadata", "update-metadata-ui"}

NoItemIdEnvelope ==
    [content |-> <<[type |-> "text",
                    text |-> <<"Error: ",
                               "No item ID provided. Pass itemId parameter or set CWS_ITEM_ID env var.">>]>>,
     isError |-> TRUE]

\* The call of invocation p has no usable itemId: none given (or an empty
\* one) and no CWS_ITEM_ID default.
LacksItemId(p) ==
    (call[p].args.itemId = Undefined \/ call[p].args.itemId = "")
    /\ DEFAULT_ITEM_ID = ""

\* C3 (missing item id): for each of the seven tools that require an item id,
\* a call whose handler is entered without itemId and without CWS_ITEM_ID is
\* finished at once with the error envelope 'Error: No item ID provided...',
\* having sent no token exchange, no API request and launched no browser.
C3_MissingItemId ==
    \A p \in Procs :
        (pc[p] # "idle" /\ call[p].tool \in ItemIdTools /\ handlerRuns[p] > 0
            /\ LacksItemId(p))
        => /\ pc[p] = "done"
           /\ result[p] = [type |-> "return", value |-> NoItemIdEnvelope]
           /\ tokenRequests[p] = <<>>
           /\ apiRequests[p] = <<>>
           /\ ui[p].launches = 0
           /\ ui[p].context = "none"

C3_Witness ==
    /\ pc[1] = "done"
    /\ call[1].tool = "update-metadata-ui"
    /\ call[1].args.itemId = Undefined
    /\ call[1].args.title = " B "
    /\ DEFAULT_ITEM_ID = ""
    /\ result[1] = [type |-> "return", value |-> NoItemIdEnvelope]

\* The identifiers an upload call resolves to.
UploadPublisher(p) ==
    IF call[p].args.publisherId \in {Undefined, ""}
    THEN PUBLISHER_ID ELSE call[p].args.publisherId
UploadItem(p) ==
    IF call[p].args.itemId \in {Undefined, ""}
    THEN DEFAULT_ITEM_ID ELSE call[p].args.itemId

Raised(p, message) == \E i \in 1..Len(thrown[p]) : thrown[p][i] = message

\* C4 (upload branch selection): an upload call never fails for lack of an
\* item id; with no itemId and no CWS_ITEM_ID its POST goes to
\* {UPLOAD_BASE}/publishers/{pub}/items:upload, and with an item id that
\* resolves it goes to {UPLOAD_BASE}/publishers/{pub}/items/{id}:upload.
C4_UploadBranch ==
    \A p \in Procs :
        (call[p].tool = "upload" /\ handlerRuns[p] > 0)
        => /\ ~Raised(p, <<"No item ID provided. Pass itemId parameter or set CWS_ITEM_ID env var.">>)
           /\ \A i \in 1..Len(apiRequests[p]) :
                 /\ apiRequests[p][i].method = "POST"
                 /\ apiRequests[p][i].url =
                      IF UploadItem(p) = ""
                      THEN <<UPLOAD_BASE, "/publishers/", UploadPublisher(p), "/items:upload">>
                      ELSE <<UPLOAD_BASE, "/publishers/", UploadPublisher(p), "/items/",
                             UploadItem(p), ":upload">>

\* The same statement of the server of src/src/index.ts alone.
UploadBranch_v110 == serverVersion = "1.1.0" => C4_UploadBranch

\* C5 (upstream passthrough): once a REST tool has received the store API's
\* answer, the invocation is finished with an envelope whose text is the raw
\* body and whose isError is true exactly when the status is outside 200..299;
\* nothing was thrown, so the text carries no 'Error: ' prefix.
C5_Passthrough ==
    \A p \in Procs :
        (call[p].tool \in RestTools /\ apiResponses[p] # <<>>)
        => /\ pc[p] = "done"
           /\ Len(apiResponses[p]) = 1
           /\ thrown[p] = <<>>
           /\ result[p] =
                [type |-> "return",
                 value |-> [content |-> <<[type |-> "text",
                                           text |-> <<apiResponses[p][1].body>>]>>,
                            isError |-> ~(apiResponses[p][1].status >= 200
                                          /\ apiResponses[p][1].status <= 299)]]

C5_Witness ==
    /\ pc[1] = "done"
    /\ call[1].tool = "publish"
    /\ apiResponses[1] = <<[status |-> 403, body |-> "{\"error\":\"forbidden\"}"]>>
    /\ result[1].value.isError = TRUE
    /\ result[1].value.content[1].text = <<"{\"error\":\"forbidden\"}">>

WellFormedEnvelope(e) ==
    /\ DOMAIN e = {"content", "isError"}
    /\ e.isError \in BOOLEAN
    /\ Len(e.content) = 1
    /\ DOMAIN e.content[1] = {"type", "text"}
    /\ e.content[1].type = "text"
    /\ Len(e.content[1].text) >= 1

\* C6 (error boundary): an invocation has no completion before it ends, and
\* it ends by returning one well-formed envelope, never by throwing; whenever
\* an error was raised inside it (item id, file read, payload validation,
\* credentials, token exchange, network, browser launch, page automation,
\* context close) the envelope has isError = true and the text
\* 'Error: ' followed by the message of the last error raised.
C6_ErrorBoundary ==
    \A p \in Procs :
        /\ pc[p] # "done" => result[p] = NoResult
        /\ pc[p] = "done"
             => /\ result[p].type = "return"
                /\ WellFormedEnvelope(result[p].value)
                /\ thrown[p] # <<>>
                     => /\ result[p].value.isError = TRUE
                        /\ result[p].value.content[1].text
                             = <<"Error: ">> \o Last(thrown[p])

\* The last failure point: the page automation failed and then closing the
\* context failed too.
C6_Witness ==
    /\ pc[1] = "done"
    /\ Len(thrown[1]) = 2
    /\ thrown[1][1] = <<"Save button not found on dashboard page.">>
    /\ ui[1].closes = 1
    /\ result[1].type = "return"
    /\ result[1].value.isError = TRUE

\* C7 (browser context released): context.close is never called twice, the
\* context is closed exactly when close was called, and no invocation that
\* launched the context completes (with an envelope or otherwise) before
\* close has run once.
C7_ContextReleased ==
    \A p \in Procs :
        /\ ui[p].closes <= 1
        /\ ui[p].launches <= 1
        /\ (ui[p].context = "closed") <=> (ui[p].closes = 1)
        /\ (result[p] # NoResult \/ pc[p] = "done")
             => (ui[p].context # "none" => ui[p].closes = 1 /\ ui[p].context = "closed")

\* The save button was not found: the context was closed once, then the
\* error envelope returned.
C7_Witness ==
    /\ pc[1] = "done"
    /\ thrown[1] = <<(<<"Save button not found on dashboard page.">>)>>
    /\ ui[1].launches = 1
    /\ ui[1].closes = 1
    /\ ui[1].context = "closed"
    /\ result[1].value.isError = TRUE

\* The names update-metadata takes as first-class arguments.
NamedFields == {"title", "summary", "description", "category", "defaultLocale",
                "homepageUrl", "supportUrl"}

Supplied(p) == {f \in NamedFields : call[p].args[f] # Undefined}
RawMetadata(p) ==
    IF call[p].args.metadata = <<>> THEN EmptyObject ELSE call[p].args.metadata[1]

\* An update-metadata call whose handler is running and whose item id resolves.
MetadataCall(p) ==
    /\ pc[p] # "idle"
    /\ call[p].tool = "update-metadata"
    /\ handlerRuns[p] > 0
    /\ ~LacksItemId(p)

NoMetadataEnvelope ==
    [content |-> <<[type |-> "text",
                    text |-> <<"Error: ", "No metadata fields provided.">>]>>,
     isError |-> TRUE]

\* C8 (empty-input rejection): an update-metadata call (item id resolved)
\* that supplies none of the seven named fields and whose metadata object is
\* absent or has no keys is finished at once with the error envelope
\* 'Error: No metadata fields provided.' and has sent neither a token
\* exchange nor an HTTP request.  Conversely, with at least one named field
\* defined (an empty string included) or at least one metadata key, that
\* error is not raised, the handler hands a PUT to apiCall, every API request
\* the call sends is that PUT, and with credentials present the call has put
\* a request (the token exchange or the PUT) on the network.
C8_EmptyMetadataRejected ==
    \A p \in Procs :
        MetadataCall(p)
        => IF Supplied(p) = {} /\ DOMAIN RawMetadata(p) = {}
           THEN /\ pc[p] = "done"
                /\ result[p] = [type |-> "return", value |-> NoMetadataEnvelope]
                /\ tokenRequests[p] = <<>>
                /\ apiRequests[p] = <<>>
           ELSE /\ ~Raised(p, <<"No metadata fields provided.">>)
                /\ call[p].options.method = "PUT"
                /\ call[p].options.url
                     = <<V1_BASE, "/items/", UploadItem(p)>>
                /\ \A i \in 1..Len(apiRequests[p]) : apiRequests[p][i].method = "PUT"
                /\ (CLIENT_ID # "" /\ CLIENT_SECRET # "" /\ REFRESH_TOKEN # "")
                     => Len(tokenRequests[p]) + Len(apiRequests[p]) >= 1

\* An empty metadata object and no named field: rejected; the boundary case.
C8_Witness ==
    /\ pc[1] = "done"
    /\ call[1].tool = "update-metadata"
    /\ call[1].args.itemId = "itemA"
    /\ call[1].args.metadata = <<EmptyObject>>
    /\ Supplied(1) = {}
    /\ result[1] = [type |-> "return", value |-> NoMetadataEnvelope]
    /\ CLIENT_ID # "" /\ CLIENT_SECRET # "" /\ REFRESH_TOKEN # ""

\* C9 (payload precedence): the body update-metadata hands to apiCall, and
\* the body of every request it sends, is the JSON text of a payload whose
\* keys are the metadata keys and the supplied named fields; a supplied named
\* field has the named argument's value, every other key has its metadata
\* value.
C9_PayloadPrecedence ==
    \A p \in Procs :
        (MetadataCall(p) /\ call[p].options # NoOptions)
        => /\ Len(call[p].options.body) = 2
           /\ call[p].options.body[1] = "json"
           /\ LET payload == call[p].options.body[2]
              IN  /\ DOMAIN payload = DOMAIN RawMetadata(p) \cup Supplied(p)
                  /\ \A f \in Supplied(p) : payload[f] = call[p].args[f]
                  /\ \A k \in DOMAIN RawMetadata(p) \ Supplied(p) :
                        payload[k] = RawMetadata(p)[k]
           /\ \A i \in 1..Len(apiRequests[p]) :
                 apiRequests[p][i].body = call[p].options.body

\* metadata = {title: "A", extra: "A"} with title = "B": the PUT is out with
\* title "B" and extra "A".
C9_Witness ==
    /\ pc[1] = "awaitApi"
    /\ call[1].tool = "update-metadata"
    /\ call[1].args.metadata = <<[title |-> "A", extra |-> "A"]>>
    /\ call[1].args.title = "B"
    /\ Len(apiRequests[1]) = 1
    /\ apiRequests[1][1].method = "PUT"
    /\ apiRequests[1][1].body = <<"json", [title |-> "B", extra |-> "A"]>>

\* C10 (deploy-percentage bounds): a deploy-percentage call whose percentage
\* is below 0 or above 100 is answered with an error without its handler being
\* entered and without any token exchange or API request; a call whose
\* percentage lies in 0..100 enters the handler, and (item id resolved) the
\* request it hands to apiCall and every request it sends is a POST whose
\* body is the JSON text of {deployPercentage: percentage}.
C10_PercentageBounds ==
    \A p \in Procs :
        (pc[p] # "idle" /\ call[p].tool = "deploy-percentage")
        => IF call[p].args.percentage < 0 \/ call[p].args.percentage > 100
           THEN /\ pc[p] = "done"
                /\ handlerRuns[p] = 0
                /\ tokenRequests[p] = <<>>
                /\ apiRequests[p] = <<>>
                /\ result[p].type = "return"
                /\ result[p].value.isError = TRUE
           ELSE /\ handlerRuns[p] = 1
                /\ ~LacksItemId(p)
                     => /\ call[p].options.method = "POST"
                        /\ call[p].options.body
                             = <<"json", [deployPercentage |-> call[p].args.percentage]>>
                /\ \A i \in 1..Len(apiRequests[p]) :
                      /\ apiRequests[p][i].method = "POST"
                      /\ apiRequests[p][i].body
                           = <<"json", [deployPercentage |-> call[p].args.percentage]>>

\* The upper endpoint is accepted: percentage 100 is on its way to the store.
C10_Witness ==
    /\ pc[1] = "awaitApi"
    /\ call[1].tool = "deploy-percentage"
    /\ call[1].args.percentage = 100
    /\ Len(apiRequests[1]) = 1
    /\ apiRequests[1][1].body = <<"json", [deployPercentage |-> 100]>>


AnyCredentialEmpty == CLIENT_ID = "" \/ CLIENT_SECRET = "" \/ REFRESH_TOKEN = ""

MissingCredentialsEnvelope ==
    [content |-> <<[type |-> "text",
                    text |-> <<"Error: ",
                               "Missing OAuth2 credentials. Set CWS_CLIENT_ID, CWS_CLIENT_SECRET, and CWS_REFRESH_TOKEN.">>]>>,
     isError |-> TRUE]

\* C11 (missing credentials): when any one of the three credentials is empty,
\* the token cache is empty in every state, no invocation ever has a
\* token-exchange or an API request out or waits for one, every REST call
\* that got as far as token acquisition (its request was prepared) is finished
\* with the 'Error: Missing OAuth2 credentials...' envelope, and the process
\* goes on serving: a finished call can be answered and an idle slot takes
\* the next call.
C11_MissingCredentials ==
    AnyCredentialEmpty
    => /\ cachedToken = Null
       /\ \A p \in Procs :
             /\ tokenRequests[p] = <<>>
             /\ apiRequests[p] = <<>>
             /\ pc[p] \notin {"awaitToken", "awaitApi"}
             /\ (call[p].tool \in RestTools /\ call[p].options # NoOptions)
                  => /\ pc[p] = "done"
                     /\ result[p] = [type |-> "return", value |-> MissingCredentialsEnvelope]
             /\ pc[p] = "done" => ENABLED Respond(p)
             /\ pc[p] = "idle" => ENABLED Call(p)

\* Only the client secret is missing; a publish call with a resolved item id
\* was refused at token acquisition.
C11_Witness ==
    /\ CLIENT_ID # "" /\ CLIENT_SECRET = "" /\ REFRESH_TOKEN # ""
    /\ pc[1] = "done"
    /\ call[1].tool = "publish"
    /\ call[1].options # NoOptions
    /\ cachedToken = Null
    /\ result[1] = [type |-> "return", value |-> MissingCredentialsEnvelope]

\* The token endpoint refused the exchange of invocation p.
Refused(p) ==
    /\ tokenResponses[p] # <<>>
    /\ "status" \in DOMAIN Last(tokenResponses[p])

\* C12 (no retries): an invocation never has more than one token-exchange
\* request nor more than one API request; in the step in which the token
\* endpoint answers a non-success status the invocation ends with the envelope
\* 'Error: Token refresh failed (<status>): <body>', isError = true, with no
\* API request sent and the token cache as it was; and nothing is sent, and
\* the cache is not touched, by that invocation afterwards.
C12_NoRetries ==
    [][\A p \in Procs :
        /\ Len(tokenRequests'[p]) <= 1
        /\ Len(apiRequests'[p]) <= 1
        /\ (Len(tokenResponses'[p]) > Len(tokenResponses[p]) /\ Refused(p)')
             => /\ Len(tokenRequests[p]) = 1
                /\ pc'[p] = "done"
                /\ result'[p] =
                     [type |-> "return",
                      value |-> [content |-> <<[type |-> "text",
                                   text |-> <<"Error: ", "Token refresh failed (",
                                              ToString(Last(tokenResponses'[p]).status),
                                              "): ", Last(tokenResponses'[p]).body>>]>>,
                                 isError |-> TRUE]]
                /\ apiRequests'[p] = <<>>
                /\ tokenRequests'[p] = tokenRequests[p]
                /\ cachedToken' = cachedToken
        /\ (Refused(p) /\ pc'[p] # "idle")
             => /\ tokenRequests'[p] = tokenRequests[p]
                /\ apiRequests'[p] = <<>>
                /\ result'[p] = result[p]
                /\ cachedToken' = cachedToken
      ]_vars

\* A refresh of an expired cache entry was refused with 401: the call ended
\* in the error envelope, no API request went out, the old entry is still cached.
C12_Witness ==
    /\ pc[1] = "done"
    /\ Len(tokenRequests[1]) = 1
    /\ tokenResponses[1] = <<[status |-> 401, body |-> "{\"error\":\"invalid_grant\"}"]>>
    /\ apiRequests[1] = <<>>
    /\ cachedToken # Null
    /\ now >= cachedToken.expires_at - 60000
    /\ result[1].value.isError = TRUE
    /\ result[1].value.content[1].text =
          <<"Error: ", "Token refresh failed (", "401", "): ", "{\"error\":\"invalid_grant\"}">>

\* The token endpoint granted the exchange of invocation p.
Granted(p) ==
    /\ tokenResponses[p] # <<>>
    /\ "access_token" \in DOMAIN Last(tokenResponses[p])

\* The cache entry an exchange writes when it is granted `data` at the current time.
PairOf(data) ==
    [access_token |-> data.access_token, expires_at |-> now + data.expires_in * 1000]

\* C13 (concurrent refreshes): with invocations interleaving, no invocation
\* sends more than one token exchange; an invocation that made an exchange
\* sends its API request with the token that exchange was granted, and one
\* that made none sends it with the access_token of the cache entry; the
\* cache is empty or a whole {access_token, expires_at} pair; every granted
\* exchange replaces the cache by its own pair in the step it completes, and
\* no other step changes the cache, so the cache always holds the pair of the
\* exchange that completed last.
C13_ConcurrentRefresh ==
    [][/\ \A p \in Procs :
            /\ Len(tokenRequests'[p]) <= 1
            /\ Len(apiRequests'[p]) > Len(apiRequests[p])
                 => IF tokenRequests[p] # <<>>
                    THEN /\ Granted(p)'
                         /\ Bearer(Last(apiRequests'[p]))
                              = <<"Bearer ", Last(tokenResponses'[p]).access_token>>
                    ELSE /\ cachedToken # Null
                         /\ Bearer(Last(apiRequests'[p]))
                              = <<"Bearer ", cachedToken.access_token>>
            /\ (Len(tokenResponses'[p]) > Len(tokenResponses[p]) /\ Granted(p)')
                 => cachedToken' = PairOf(Last(tokenResponses'[p]))
       /\ cachedToken' # Null
            => /\ DOMAIN cachedToken' = {"access_token", "expires_at"}
               /\ cachedToken'.access_token \in {"ya29.A", "ya29.B"}
       /\ cachedToken' # cachedToken
            => \E p \in Procs :
                  /\ Len(tokenResponses'[p]) > Len(tokenResponses[p])
                  /\ Granted(p)'
      ]_vars

\* Two redundant refreshes: both invocations made an exchange of their own
\* and were granted different tokens; each sent its API request with its own
\* token, and the cache holds the pair of the second, which completed last.
C13_Witness ==
    /\ pc[1] = "done" /\ pc[2] = "done"
    /\ Len(tokenRequests[1]) = 1 /\ Len(tokenRequests[2]) = 1
    /\ Len(tokenResponses[1]) = 1 /\ Len(tokenResponses[2]) = 1
    /\ "access_token" \in DOMAIN tokenResponses[1][1]
    /\ "access_token" \in DOMAIN tokenResponses[2][1]
    /\ tokenResponses[1][1].access_token = "ya29.A"
    /\ tokenResponses[2][1].access_token = "ya29.B"
    /\ Bearer(apiRequests[1][1]) = <<"Bearer ", "ya29.A">>
    /\ Bearer(apiRequests[2][1]) = <<"Bearer ", "ya29.B">>
    /\ cachedToken.access_token = "ya29.B"
    /\ now > 0

\* C14 (no partial success): a finished call carries one envelope whose
\* isError is true or false; for update-metadata-ui the envelope has
\* isError = true only if the save control was never clicked in that run and
\* isError = false only if it was clicked, so no failure after the click (the
\* settle delay, context.close) turns a submitted save into an error.
C14_NoPartialSuccess ==
    \A p \in Procs :
        pc[p] = "done"
        => /\ result[p].type = "return"
           /\ result[p].value.isError \in BOOLEAN
           /\ (call[p].tool = "update-metadata-ui" /\ handlerRuns[p] > 0)
                => (result[p].value.isError <=> ui[p].saveClicks = 0)

\* The identifiers the resolution order gives the call of invocation p:
\* the argument if non-empty, else the environment's default.
ExpectedPublisher(p) ==
    IF call[p].args.publisherId # Undefined /\ call[p].args.publisherId # ""
    THEN call[p].args.publisherId ELSE PUBLISHER_ID
ExpectedItem(p) ==
    IF call[p].args.itemId # Undefined /\ call[p].args.itemId # ""
    THEN call[p].args.itemId ELSE DEFAULT_ITEM_ID

\* The operation table's verb and method of the tools under /v2/publishers.
TableVerb(tool) ==
    CASE tool = "publish" -> <<"POST", ":publish">>
      [] tool = "status" -> <<"GET", ":fetchStatus">>
      [] tool = "cancel" -> <<"POST", ":cancelSubmission">>
      [] tool = "deploy-percentage" -> <<"POST", ":setPublishedDeployPercentage">>

\* C15 (endpoint table): every API request a REST tool sends has the method
\* and URL of the operation table: publish POST, status GET, cancel POST and
\* deploy-percentage POST on {API_BASE}/v2/publishers/{pub}/items/{id}:<verb>,
\* get GET on {V1_BASE}/items/{id}?projection={p} with p the projection given
\* or DRAFT, update-metadata PUT on {V1_BASE}/items/{id}; an invocation sends
\* at most one such request, and status never sends a POST.
C15_EndpointTable ==
    \A p \in Procs :
        /\ Len(apiRequests[p]) <= 1
        /\ \A i \in 1..Len(apiRequests[p]) :
              LET req == apiRequests[p][i]
                  tool == call[p].tool
              IN  /\ tool \in {"publish", "status", "cancel", "deploy-percentage"}
                       => /\ req.method = TableVerb(tool)[1]
                          /\ req.url = <<API_BASE, "/v2/publishers/", ExpectedPublisher(p),
                                         "/items/", ExpectedItem(p), TableVerb(tool)[2]>>
                  /\ tool = "status" => req.method # "POST"
                  /\ tool = "get"
                       => /\ req.method = "GET"
                          /\ req.url = <<V1_BASE, "/items/", ExpectedItem(p), "?projection=",
                                         IF call[p].args.projection = Undefined
                                         THEN "DRAFT" ELSE call[p].args.projection>>
                  /\ tool = "update-metadata"
                       => /\ req.method = "PUT"
                          /\ req.url = <<V1_BASE, "/items/", ExpectedItem(p)>>

\* The same statement of the server of src/src/index.ts alone.
EndpointTable_v110 == serverVersion = "1.1.0" => C15_EndpointTable

\* The resolution order over the raw arguments and the raw environment.
Given(v) == v # Undefined /\ v # ""
OrderPublisher(p) ==
    IF Given(call[p].args.publisherId) THEN call[p].args.publisherId
    ELSE IF Given(env.CWS_PUBLISHER_ID) THEN env.CWS_PUBLISHER_ID
    ELSE "me"
\* "" stands for: no item id.
OrderItem(p) ==
    IF Given(call[p].args.itemId) THEN call[p].args.itemId
    ELSE IF Given(env.CWS_ITEM_ID) THEN env.CWS_ITEM_ID
    ELSE ""

\* C16 (identifier resolution order): in every REST call whose handler runs,
\* the publisher in the request is the publisherId argument if non-empty,
\* else CWS_PUBLISHER_ID if set and non-empty, else "me"; the item in the
\* request is the itemId argument if non-empty, else CWS_ITEM_ID if
\* non-empty; with neither, the call ends in the 'No item ID provided' error
\* without a request, except upload, which raises no such error and posts to
\* the collection URL .../publishers/{pub}/items:upload.  An empty-string
\* argument counts as absent.
C16_ResolutionOrder ==
    \A p \in Procs :
        (call[p].tool \in RestTools /\ handlerRuns[p] > 0)
        => LET tool == call[p].tool
               pub == OrderPublisher(p)
               id == OrderItem(p)
               noItemId == <<"No item ID provided. Pass itemId parameter or set CWS_ITEM_ID env var.">>
           IN  IF id = ""
               THEN IF tool = "upload"
                    THEN /\ ~Raised(p, noItemId)
                         /\ \A i \in 1..Len(apiRequests[p]) :
                               apiRequests[p][i].url
                                 = <<UPLOAD_BASE, "/publishers/", pub, "/items:upload">>
                    ELSE /\ pc[p] = "done"
                         /\ thrown[p] = <<noItemId>>
                         /\ result[p].value.isError = TRUE
                         /\ tokenRequests[p] = <<>>
                         /\ apiRequests[p] = <<>>
               ELSE /\ ~Raised(p, noItemId)
                    /\ \A i \in 1..Len(apiRequests[p]) :
                          LET url == apiRequests[p][i].url
                          IN  IF tool \in {"get", "update-metadata"}
                              THEN url[2] = "/items/" /\ url[3] = id
                              ELSE /\ url[2] \in {"/publishers/", "/v2/publishers/"}
                                   /\ url[3] = pub
                                   /\ url[4] = "/items/"
                                   /\ url[5] = id

\* The same statement of the server of src/src/index.ts alone.
ResolutionOrder_v110 == serverVersion = "1.1.0" => C16_ResolutionOrder

\* An empty publisherId argument and an empty CWS_PUBLISHER_ID: the publish
\* request went out under "me", for the item of CWS_ITEM_ID.
ResolutionOrder_Reached ==
    /\ pc[1] = "awaitApi"
    /\ call[1].tool = "publish"
    /\ call[1].args.publisherId = "" /\ env.CWS_PUBLISHER_ID = ""
    /\ call[1].args.itemId = "" /\ env.CWS_ITEM_ID = "itemEnv"
    /\ apiRequests[1][1].url[3] = "me"
    /\ apiRequests[1][1].url[5] = "itemEnv"

\* A string with something other than white space in it.
NotBlank(v) == v # Undefined /\ Trim(v) # ""

\* The text fields the call of invocation p supplies non-blank, in the
\* handler's order, each with the trimmed value to type into it.
TextOrder == <<"title", "summary", "description", "homepageUrl", "supportUrl">>
RECURSIVE FillsFrom(_, _)
FillsFrom(p, i) ==
    IF i > Len(TextOrder) THEN <<>>
    ELSE (IF NotBlank(call[p].args[TextOrder[i]])
          THEN << <<TextOrder[i], Trim(call[p].args[TextOrder[i]])>> >>
          ELSE <<>>) \o FillsFrom(p, i + 1)
ExpectedFills(p) == FillsFrom(p, 1)

IsPrefix(a, b) == Len(a) <= Len(b) /\ a = SubSeq(b, 1, Len(a))

\* An error of the kinds that must keep the save from being clicked.
FieldOrLoginError(p) ==
    \E i \in 1..Len(thrown[p]) :
        \/ thrown[p][i][1] = "Unable to locate field by labels: "
        \/ thrown[p][i][1] = "Not signed in to Chrome Web Store dashboard. Open once with headless=false and sign in. Profile dir: "

\* The ordering an update-metadata-ui invocation keeps in every state.
UiOrdered(p) ==
    /\ ui[p].launches > 0
         => /\ (Given(call[p].args.itemId) \/ DEFAULT_ITEM_ID # "")
            /\ \E f \in {"title", "summary", "description", "category",
                          "homepageUrl", "supportUrl"} : NotBlank(call[p].args[f])
    /\ IsPrefix(ui[p].filled, ExpectedFills(p))
    /\ ui[p].filled # <<>>
         => ui[p].url # <<>> /\ ui[p].url[1] = "https://chromewebstore.google.com/u/"
    /\ ui[p].saveClicks > 0
         => /\ ui[p].saveClicks = 1
            /\ ui[p].context # "none"
            /\ ui[p].url # <<>>
            /\ ui[p].url[1] = "https://chromewebstore.google.com/u/"
            /\ ui[p].filled = ExpectedFills(p)
            /\ ~FieldOrLoginError(p)
    /\ FieldOrLoginError(p) => ui[p].saveClicks = 0

\* C17 (update-metadata-ui step ordering): the browser context is launched
\* only for a call whose item id resolved and that has a non-blank title,
\* summary, description, category, homepageUrl or supportUrl; fields are
\* filled in the order title, summary, description, homepageUrl, supportUrl
\* and only on the dashboard page; the save control is clicked (once) only
\* with the page on the dashboard and every supplied non-blank text field
\* filled with its trimmed value; after a field that could not be located or
\* a detected login page, save is never clicked; and the step that finds no
\* category combobox or no matching option raises nothing and goes on to the
\* save step.
C17_UiStepOrder ==
    [][\A p \in Procs :
        /\ UiOrdered(p)'
        /\ (ui[p].category = "untried" /\ ui'[p].category \in {"noCombobox", "noOption"})
             => /\ thrown'[p] = thrown[p]
                /\ pc'[p] = "uiSave"
                /\ ui'[p].pending = NoResult
      ]_vars

\* Title and description were filled in that order, the category option was
\* not found, and the save went through.
C17_Witness ==
    /\ pc[1] = "done"
    /\ call[1].args.title = " B " /\ call[1].args.description = " B "
    /\ call[1].args.category = "B"
    /\ ui[1].filled = << <<"title", "B">>, <<"description", "B">> >>
    /\ ui[1].category = "noOption"
    /\ ui[1].saveClicks = 1
    /\ result[1].value.isError = FALSE

====
